---- MODULE Spec2Model ----
(***************************************************************************)
(* FundingMe: the project-account state machine of                         *)
(* programs/fundingme_dapp/src/lib.rs (create_project, donate,             *)
(* close_project, get_donator_count) together with the account             *)
(* constraints of CreateProject and RunningProject.                        *)
(*                                                                         *)
(* One step of the model is one instruction, processed as the runtime      *)
(* processes it: account validation, the handler, the write-back of the    *)
(* account data; an instruction that returns an error commits nothing.     *)
(*                                                                         *)
(* lamports and vault are the funds that system_instruction::transfer      *)
(* moves: the wallets' spendable funds and what each project account has   *)
(* received.  The rent-exempt reserve the payer deposits when `init`       *)
(* provisions the account belongs to the host and is not tracked.          *)
(***************************************************************************)
EXTENDS Integers, Sequences, FiniteSets, TLC

\* ------------------------------------------------------------- bounds
\* Width of the unsigned integers of the model (u64 in the program).
WordBits == 4
\* Spendable lamports of every wallet at the start.
InitLamports == 2
\* The non-zero financial_target callers pass (0 is passed too).
MaxTarget == 2

\* ---------------------------------------------------------- constants
\* space = 5000: the bytes reserved for the account data.
Space == 5000

Modulus == 2 ^ WordBits

\* The signers (Pubkey); each is the seed of one project address.
Users == {"alice", "bob"}
Names == {"A", "Bike Fund"}
Targets == {0, MaxTarget}
Amounts == 0 .. (InitLamports + 1)

\* enum ProjectStatus (status.rs): the two variants lib.rs names and the
\* two closed ones.
ProjectStatus == {"Active", "TargetReached", "Successful", "Failed"}

VARIABLES
    project,    \* project address (its seed, a user) -> ProjectAccount
    lamports,   \* wallet -> spendable lamports
    vault,      \* project address -> lamports received by transfer
    paid,       \* observer: project address -> donor -> lamports moved by committed donates
    donated,    \* observer: project address -> set of signers with a committed donate
    last        \* observer: the last instruction, its inputs and its result

vars == <<project, lamports, vault, paid, donated, last>>

\* ------------------------------------------------------------ helpers
RECURSIVE SumAmounts(_)
SumAmounts(ds) ==
    IF ds = <<>> THEN 0 ELSE Head(ds).amount + SumAmounts(Tail(ds))

\* A find that never matches.
FindDonatorNever(ds, user) == 0

\* donators.iter_mut().find(|d| d.user == donator_key): the index of the
\* first record of `user`, 0 when there is none.
FindDonator(ds, user) ==
    LET hits == {i \in 1 .. Len(ds) : ds[i].user = user}
    IN  IF hits = {} THEN 0 ELSE CHOOSE i \in hits : \A j \in hits : i <= j

\* u64 `+=`: the sum when it fits; on overflow the build decides between a
\* panic (overflow checks on) and the wrapped value (overflow checks off).
AddU64(a, b) ==
    IF a + b < Modulus
    THEN {[panic |-> FALSE, val |-> a + b]}
    ELSE {[panic |-> TRUE, val |-> a],
          [panic |-> FALSE, val |-> (a + b) % Modulus]}

\* The bump of the address derived from seeds ["project", user].
Bump(user) == IF user = "alice" THEN 255 ELSE 254

\* Borsh size of the account: discriminator, owner, name, target, balance,
\* status tag, donators (length prefix and 40 bytes each), bump.
SerializedSize(p) ==
    8 + 32 + (4 + Len(p.name)) + 8 + 8 + 1 + (4 + 40 * Len(p.donators)) + 1

\* The write-back of the account at exit succeeds only within `space`.
Fits(p) == SerializedSize(p) <= Space

Call(op, caller, key, amount, name, target, transfer, result) ==
    [op |-> op, caller |-> caller, key |-> key, amount |-> amount,
     name |-> name, target |-> target, transfer |-> transfer,
     result |-> result]

\* ------------------------------------------------------ create_project
\* `init_if_needed` in place of `init`.
InitIfNeeded(key) == TRUE

\* `init`: the address must not hold an account yet.
InitAllowed(key) == key \notin DOMAIN project

\* A creation that starts the balance at the target.
NewProjectFunded(caller, name, financial_target) ==
    [owner            |-> caller,
     name             |-> name,
     financial_target |-> financial_target,
     balance          |-> financial_target,
     status           |-> "Active",
     donators         |-> <<>>,
     bump             |-> Bump(caller)]

NewProject(caller, name, financial_target) ==
    [owner            |-> caller,
     name             |-> name,
     financial_target |-> financial_target,
     balance          |-> 0,
     status           |-> "Active",
     donators         |-> <<>>,
     bump             |-> Bump(caller)]

CreateProject(caller, name, financial_target) ==
    LET p  == NewProject(caller, name, financial_target)
        ok == InitAllowed(caller) /\ Fits(p)
        result == IF ~InitAllowed(caller) THEN "AccountInUse"
                  ELSE IF ~Fits(p) THEN "AccountDidNotSerialize"
                  ELSE "Ok"
    IN  /\ project' = IF ok
                      THEN [k \in DOMAIN project \cup {caller} |->
                               IF k = caller THEN p ELSE project[k]]
                      ELSE project
        /\ last' = Call("create_project", caller, caller, 0, name,
                        financial_target, "none", result)
        /\ UNCHANGED <<lamports, vault, paid, donated>>

\* -------------------------------------------------------------- donate
\* A transfer that checks neither the wallet's funds nor the credit.
TransferUnchecked(from, key, amount) ==
    [ok       |-> TRUE,
     lamports |-> [lamports EXCEPT
                     ![from] = IF @ >= amount THEN @ - amount ELSE 0],
     vault    |-> [vault EXCEPT ![key] = (@ + amount) % Modulus]]

\* system_instruction::transfer(user, project, amount) through invoke:
\* fails when the wallet holds less than amount (or the credit overflows).
Transfer(from, key, amount) ==
    IF lamports[from] >= amount /\ vault[key] + amount < Modulus
    THEN [ok       |-> TRUE,
          lamports |-> [lamports EXCEPT ![from] = @ - amount],
          vault    |-> [vault EXCEPT ![key] = @ + amount]]
    ELSE [ok |-> FALSE, lamports |-> lamports, vault |-> vault]

\* `=` in place of `+=` on the existing record.
RecordDonationOverwrite(ds, user, amount) ==
    LET i == FindDonator(ds, user)
    IN  IF i # 0
        THEN {[panic |-> FALSE, donators |-> [ds EXCEPT ![i].amount = amount]]}
        ELSE {[panic |-> FALSE,
               donators |-> Append(ds, [user |-> user, amount |-> amount])]}

\* The update lands on the first record instead of the signer's.
RecordDonationFirst(ds, user, amount) ==
    LET i == FindDonator(ds, user)
    IN  IF i # 0
        THEN {[panic |-> FALSE,
               donators |-> [ds EXCEPT ![1].amount = (@ + amount) % Modulus]]}
        ELSE {[panic |-> FALSE,
               donators |-> Append(ds, [user |-> user, amount |-> amount])]}

\* A new donor inserted at the head of the list (insert(0, ..)).
RecordDonationFront(ds, user, amount) ==
    LET i == FindDonator(ds, user)
    IN  IF i # 0
        THEN {IF s.panic THEN [panic |-> TRUE, donators |-> ds]
              ELSE [panic |-> FALSE,
                    donators |-> [ds EXCEPT ![i].amount = s.val]]
              : s \in AddU64(ds[i].amount, amount)}
        ELSE {[panic |-> FALSE,
               donators |-> <<[user |-> user, amount |-> amount]>> \o ds]}

\* Lines 56-69: add to the signer's record, or push a new one.
RecordDonation(ds, user, amount) ==
    LET i == FindDonator(ds, user)
    IN  IF i # 0
        THEN {IF s.panic THEN [panic |-> TRUE, donators |-> ds]
              ELSE [panic |-> FALSE,
                    donators |-> [ds EXCEPT ![i].amount = s.val]]
              : s \in AddU64(ds[i].amount, amount)}
        ELSE {[panic |-> FALSE,
               donators |-> Append(ds, [user |-> user, amount |-> amount])]}

\* The wrong variant written when the target is met.
StatusAfterSuccessful(p) ==
    IF p.balance >= p.financial_target THEN "Successful" ELSE p.status

\* `==` in place of `>=`.
StatusAfterExact(p) ==
    IF p.balance = p.financial_target THEN "TargetReached" ELSE p.status

\* Lines 71-73.
StatusAfter(p) ==
    IF p.balance >= p.financial_target THEN "TargetReached" ELSE p.status

\* `financial_target += amount` in place of `balance += amount`.
BookkeepingOnTarget(p, caller, amount) ==
    {IF d.panic THEN [result |-> "Panic", project |-> p]
     ELSE LET q == [p EXCEPT !.financial_target = (@ + amount) % Modulus,
                             !.donators = d.donators]
          IN  [result |-> "Ok",
               project |-> [q EXCEPT !.status = StatusAfter(q)]]
     : d \in RecordDonation(p.donators, caller, amount)}

\* `balance = amount` in place of `balance += amount`.
BookkeepingAssign(p, caller, amount) ==
    {IF d.panic THEN [result |-> "Panic", project |-> p]
     ELSE LET q == [p EXCEPT !.balance = amount,
                             !.donators = d.donators]
          IN  [result |-> "Ok",
               project |-> [q EXCEPT !.status = StatusAfter(q)]]
     : d \in RecordDonation(p.donators, caller, amount)}

\* Lines 53-75: the bookkeeping after the transfer.
Bookkeeping(p, caller, amount) ==
    UNION {
        IF b.panic THEN {[result |-> "Panic", project |-> p]}
        ELSE {IF d.panic THEN [result |-> "Panic", project |-> p]
              ELSE LET q == [p EXCEPT !.balance = b.val,
                                      !.donators = d.donators]
                   IN  [result |-> "Ok",
                        project |-> [q EXCEPT !.status = StatusAfter(q)]]
              : d \in RecordDonation(p.donators, caller, amount)}
        : b \in AddU64(p.balance, amount)}

\* The transfer's result dropped (no `?`).
DonateHandlerUnchecked(p, caller, amount, transferOk) ==
    Bookkeeping(p, caller, amount)

\* A handler that accepts donations only while Active.
DonateHandlerActiveOnly(p, caller, amount, transferOk) ==
    IF ~transferOk
    THEN {[result |-> "TransferFailed", project |-> p]}
    ELSE IF p.status # "Active"
    THEN {[result |-> "InvalidProjectStatus", project |-> p]}
    ELSE Bookkeeping(p, caller, amount)

\* The handler: `invoke(...)?` returns the transfer's error before any
\* bookkeeping.
DonateHandler(p, caller, amount, transferOk) ==
    IF ~transferOk
    THEN {[result |-> "TransferFailed", project |-> p]}
    ELSE Bookkeeping(p, caller, amount)

Donate(caller, key, amount) ==
    IF key \notin DOMAIN project
    THEN /\ last' = Call("donate", caller, key, amount, "", 0, "none",
                         "AccountNotInitialized")
         /\ UNCHANGED <<project, lamports, vault, paid, donated>>
    ELSE LET t == Transfer(caller, key, amount)
         IN  \E out \in DonateHandler(project[key], caller, amount, t.ok) :
               LET result == IF out.result = "Ok" /\ ~Fits(out.project)
                             THEN "AccountDidNotSerialize"
                             ELSE out.result
                   commit == result = "Ok"
               IN  /\ project' = IF commit
                                 THEN [project EXCEPT ![key] = out.project]
                                 ELSE project
                   /\ lamports' = IF commit THEN t.lamports ELSE lamports
                   /\ vault' = IF commit THEN t.vault ELSE vault
                   /\ paid' = IF commit /\ t.ok
                              THEN [paid EXCEPT ![key][caller] = @ + amount]
                              ELSE paid
                   /\ donated' = IF commit /\ t.ok
                                 THEN [donated EXCEPT ![key] = @ \cup {caller}]
                                 ELSE donated
                   /\ last' = Call("donate", caller, key, amount, "", 0,
                                   IF t.ok THEN "ok" ELSE "failed", result)

\* -------------------------------------------------------- close_project
\* A close without the final else branch.
CloseResultAlwaysOk(status) == "Ok"

CloseResult(status) ==
    IF status = "Active" THEN "Ok"
    ELSE IF status = "TargetReached" THEN "Ok"
    ELSE "InvalidProjectStatus"

\* A close that carries out the transition table: Active -> Failed,
\* TargetReached -> Successful.
CloseProjectSettles(caller, key) ==
    /\ last' = Call("close_project", caller, key, 0, "", 0, "none",
                    IF key \in DOMAIN project
                    THEN CloseResult(project[key].status)
                    ELSE "AccountNotInitialized")
    /\ project' = IF key \in DOMAIN project
                      /\ CloseResult(project[key].status) = "Ok"
                  THEN [project EXCEPT ![key].status =
                           IF @ = "Active" THEN "Failed" ELSE "Successful"]
                  ELSE project
    /\ UNCHANGED <<lamports, vault, paid, donated>>

\* A close that only the owner may call.
CloseProjectOwnerOnly(caller, key) ==
    /\ last' = Call("close_project", caller, key, 0, "", 0, "none",
                    IF key \notin DOMAIN project THEN "AccountNotInitialized"
                    ELSE IF caller # project[key].owner THEN "Unauthorized"
                    ELSE CloseResult(project[key].status))
    /\ UNCHANGED <<project, lamports, vault, paid, donated>>

CloseProject(caller, key) ==
    /\ last' = Call("close_project", caller, key, 0, "", 0, "none",
                    IF key \in DOMAIN project
                    THEN CloseResult(project[key].status)
                    ELSE "AccountNotInitialized")
    /\ UNCHANGED <<project, lamports, vault, paid, donated>>

\* ---------------------------------------------------- get_donator_count
\* A count that returns the balance.
DonatorCountBalance(p) == p.balance

DonatorCount(p) == Len(p.donators)

GetDonatorCount(caller, key) ==
    /\ last' = Call("get_donator_count", caller, key,
                    IF key \in DOMAIN project
                    THEN DonatorCount(project[key]) ELSE 0,
                    "", 0, "none",
                    IF key \in DOMAIN project
                    THEN "Ok" ELSE "AccountNotInitialized")
    /\ UNCHANGED <<project, lamports, vault, paid, donated>>

\* ------------------------------------------------------- specification
Init ==
    /\ project = [k \in {} |-> 0]
    /\ lamports = [u \in Users |-> InitLamports]
    /\ vault = [k \in Users |-> 0]
    /\ paid = [k \in Users |-> [u \in Users |-> 0]]
    /\ donated = [k \in Users |-> {}]
    /\ last = Call("none", "alice", "alice", 0, "", 0, "none", "Ok")

Next ==
    \/ \E caller \in Users, name \in Names, target \in Targets :
          CreateProject(caller, name, target)
    \/ \E caller \in Users, key \in Users, amount \in Amounts :
          Donate(caller, key, amount)
    \/ \E caller \in Users, key \in Users : CloseProject(caller, key)
    \/ \E caller \in Users, key \in Users : GetDonatorCount(caller, key)

Spec == Init /\ [][Next]_vars

\* close_project as a function of the stored account: the accounts it can
\* be handed, of every status of the enum.
DonorLists ==
    {<<>>,
     <<[user |-> "alice", amount |-> 1]>>,
     <<[user |-> "bob", amount |-> 1], [user |-> "alice", amount |-> 2]>>}

StoredAccounts(key) ==
    {[owner            |-> key,
      name             |-> n,
      financial_target |-> t,
      balance          |-> SumAmounts(ds),
      status           |-> s,
      donators         |-> ds,
      bump             |-> Bump(key)]
     : n \in Names, t \in Targets, s \in ProjectStatus, ds \in DonorLists}

InitClose ==
    /\ project \in [Users -> UNION {StoredAccounts(k) : k \in Users}]
    /\ \A k \in Users : project[k] \in StoredAccounts(k)
    /\ lamports = [u \in Users |-> InitLamports]
    /\ vault = [k \in Users |-> project[k].balance]
    /\ paid = [k \in Users |-> [u \in Users |->
                 LET i == FindDonator(project[k].donators, u)
                 IN  IF i = 0 THEN 0 ELSE project[k].donators[i].amount]]
    /\ donated = [k \in Users |->
                    {project[k].donators[i].user :
                        i \in 1 .. Len(project[k].donators)}]
    /\ last = Call("none", "alice", "alice", 0, "", 0, "none", "Ok")

NextClose == \E caller \in Users, key \in Users : CloseProject(caller, key)

SpecClose == InitClose /\ [][NextClose]_vars

\* ============================================================== claims
HasRecord(ds, user) == \E i \in 1 .. Len(ds) : ds[i].user = user

\* The amount recorded for `user`, 0 when there is no record.
AmountOf(ds, user) ==
    IF HasRecord(ds, user)
    THEN LET i == CHOOSE j \in 1 .. Len(ds) : ds[j].user = user
         IN  ds[i].amount
    ELSE 0

DonateCommitted == last.op = "donate" /\ last.result = "Ok"

\* C1. Balance consistency: in every reachable state the balance of every
\* project equals the sum of the amounts of its donor records.
C1_BalanceConsistency ==
    \A k \in DOMAIN project :
        project[k].balance = SumAmounts(project[k].donators)

\* C1 witness: two donors, one of them after several donations, and a
\* failed donate as the last call.
C1_Witness ==
    \E k \in DOMAIN project :
        /\ Len(project[k].donators) = 2
        /\ project[k].balance >= 3
        /\ last.op = "donate" /\ last.key = k /\ last.result = "TransferFailed"

\* C2. Donor uniqueness: no two records of a donor list carry the same
\* identity, and a committed donate by an identity that already has a
\* record leaves the length of the list unchanged.
C2_Unique ==
    \A k \in DOMAIN project :
        \A i, j \in 1 .. Len(project[k].donators) :
            i # j => project[k].donators[i].user # project[k].donators[j].user

C2_ReturningDonorStep ==
    \A k \in DOMAIN project :
        (/\ last'.op = "donate" /\ last'.key = k /\ last'.result = "Ok"
         /\ HasRecord(project[k].donators, last'.caller))
        => /\ Len(project'[k].donators) = Len(project[k].donators)
           /\ AmountOf(project'[k].donators, last'.caller)
                = AmountOf(project[k].donators, last'.caller) + last'.amount

C2_DonorUniqueness == [](C2_Unique) /\ [][C2_ReturningDonorStep]_vars

\* C2 witness: a committed donate by a donor whose record already held an
\* earlier positive donation.
C2_Witness ==
    /\ DonateCommitted
    /\ last.amount > 0
    /\ AmountOf(project[last.key].donators, last.caller) > last.amount
    /\ Len(project[last.key].donators) = 2

\* C3 (as claimed). In every reachable state, status = TargetReached if and
\* only if balance >= financial_target, for every target including 0.
C3_StatusIffTargetMet ==
    \A k \in DOMAIN project :
        (project[k].status = "TargetReached")
            <=> (project[k].balance >= project[k].financial_target)

\* C4. Target monotonicity: no step takes a project whose status is
\* TargetReached back to Active (or removes it).
C4_TargetMonotone ==
    [][\A k \in DOMAIN project :
          project[k].status = "TargetReached"
          => (k \in DOMAIN project' /\ project'[k].status # "Active")]_vars

\* C4 witness: a close_project has just returned Ok on a
\* project that is TargetReached with a positive target.
C4_Witness ==
    /\ last.op = "close_project" /\ last.result = "Ok"
    /\ last.key \in DOMAIN project
    /\ project[last.key].status = "TargetReached"
    /\ project[last.key].financial_target > 0

\* C5. Atomicity of donate: when the transfer fails, donate returns an
\* error and the project (balance, donors, status) and the funds are as
\* before the call.
C5_DonateAtomic ==
    [][(last'.op = "donate" /\ last'.transfer = "failed")
       => (/\ last'.result = "TransferFailed"
           /\ project' = project
           /\ lamports' = lamports
           /\ vault' = vault)]_vars

\* C5 witness: a donate whose transfer failed on a project that already
\* has a donor.
C5_Witness ==
    /\ last.op = "donate" /\ last.transfer = "failed"
    /\ last.key \in DOMAIN project
    /\ project[last.key].donators # <<>>

\* C6. Closure guard: close_project on an account whose status is
\* Successful or Failed returns InvalidProjectStatus and changes nothing.
C6_ClosureGuard ==
    [][\A k \in DOMAIN project :
          (/\ last'.op = "close_project" /\ last'.key = k
           /\ project[k].status \notin {"Active", "TargetReached"})
          => (/\ last'.result = "InvalidProjectStatus"
              /\ project' = project
              /\ lamports' = lamports
              /\ vault' = vault)]_vars

\* C6 witness: a close_project rejected on a closed project.
C6_Witness ==
    /\ last.op = "close_project"
    /\ last.result = "InvalidProjectStatus"
    /\ project[last.key].status \in {"Successful", "Failed"}
    /\ project[last.key].donators # <<>>

C8_CumulativeAmount ==
    \A k \in DOMAIN project : \A u \in Users :
        /\ HasRecord(project[k].donators, u) <=> u \in donated[k]
        /\ \A i \in 1 .. Len(project[k].donators) :
              project[k].donators[i].user = u
              => project[k].donators[i].amount = paid[k][u]

\* C8 witness: a donor whose record sums several donations, the last of
\* them just committed, beside an identity that never donated.
C8_Witness ==
    /\ DonateCommitted
    /\ last.amount > 0
    /\ paid[last.key][last.caller] > last.amount
    /\ \E u \in Users : u \notin donated[last.key]

\* C9 (as claimed). Every record of every donor list has amount > 0.
C9_AmountsPositive ==
    \A k \in DOMAIN project :
        \A i \in 1 .. Len(project[k].donators) :
            project[k].donators[i].amount > 0

\* C10. Donation after target reached: a donate whose transfer succeeds on
\* a project that is TargetReached returns Ok, adds amount to the balance
\* and to the caller's record, and leaves the status TargetReached.
C10_DonateAfterTarget ==
    [][\A k \in DOMAIN project :
          (/\ last'.op = "donate" /\ last'.key = k /\ last'.transfer = "ok"
           /\ project[k].status = "TargetReached")
          => (/\ last'.result = "Ok"
              /\ project'[k].balance = project[k].balance + last'.amount
              /\ AmountOf(project'[k].donators, last'.caller)
                   = AmountOf(project[k].donators, last'.caller) + last'.amount
              /\ project'[k].status = "TargetReached")]_vars

\* C10 witness: a committed positive donate on a project whose balance had
\* already met its positive target before the call.
C10_Witness ==
    /\ DonateCommitted
    /\ last.amount > 0
    /\ project[last.key].financial_target > 0
    /\ project[last.key].balance - last.amount
         >= project[last.key].financial_target
    /\ project[last.key].status = "TargetReached"

\* C11. close_project on a project whose status is Active or TargetReached
\* returns Ok, moves no funds and leaves the whole account unchanged.
C11_CloseIsNoOp ==
    [][\A k \in DOMAIN project :
          (/\ last'.op = "close_project" /\ last'.key = k
           /\ project[k].status \in {"Active", "TargetReached"})
          => (/\ last'.result = "Ok"
              /\ k \in DOMAIN project'
              /\ project'[k] = project[k]
              /\ project' = project
              /\ lamports' = lamports
              /\ vault' = vault)]_vars

\* C11 witness: close_project has just returned Ok on an Active project
\* that holds a donation.
C11_Witness ==
    /\ last.op = "close_project" /\ last.result = "Ok"
    /\ last.key \in DOMAIN project
    /\ project[last.key].status = "Active"
    /\ project[last.key].balance > 0

\* The result of close_project as the account alone decides it.
CloseExpected(key) ==
    IF key \notin DOMAIN project THEN "AccountNotInitialized"
    ELSE IF project[key].status \in {"Active", "TargetReached"} THEN "Ok"
    ELSE "InvalidProjectStatus"

\* C12. No owner check on closure: the result of close_project is decided
\* by the account alone, whoever the caller is, and the call leaves the
\* state unchanged for the owner and for any other caller alike.
C12_CloseIgnoresCaller ==
    [][last'.op = "close_project"
       => (/\ last'.result = CloseExpected(last'.key)
           /\ project' = project
           /\ lamports' = lamports
           /\ vault' = vault)]_vars

\* C12 witness: close_project has just returned Ok to a caller that is
\* not the owner of the project.
C12_Witness ==
    /\ last.op = "close_project" /\ last.result = "Ok"
    /\ last.key \in DOMAIN project
    /\ last.caller # project[last.key].owner
    /\ project[last.key].donators # <<>>

\* C13. owner, name and financial_target are write-once: no step, of any
\* instruction by any caller, successful or failed, changes them on an
\* existing project.
C13_WriteOnce ==
    [][\A k \in DOMAIN project :
          /\ k \in DOMAIN project'
          /\ project'[k].owner = project[k].owner
          /\ project'[k].name = project[k].name
          /\ project'[k].financial_target = project[k].financial_target]_vars

\* C13 witness: a donate by a caller other than the owner has just
\* committed on a project named "Bike Fund" with a positive target.
C13_Witness ==
    /\ DonateCommitted
    /\ last.amount > 0
    /\ last.caller # project[last.key].owner
    /\ project[last.key].name = "Bike Fund"
    /\ project[last.key].financial_target > 0

\* C14. While the status is Active the balance never decreases: every step
\* from a state where a project is Active leaves its balance at least as
\* large.
C14_BalanceMonotoneWhileActive ==
    [][\A k \in DOMAIN project :
          project[k].status = "Active"
          => (/\ k \in DOMAIN project'
              /\ project'[k].balance >= project[k].balance)]_vars

\* C14 witness: a donate has just committed and the project is still
\* Active with a positive balance.
C14_Witness ==
    /\ DonateCommitted
    /\ project[last.key].status = "Active"
    /\ project[last.key].balance > 0
    /\ last.amount > 0

\* C15. At most one project per owner key: create_project by a caller
\* whose address already holds a project fails and leaves that project,
\* every other project and the funds unchanged.
C15_DuplicateCreateFails ==
    [][(last'.op = "create_project" /\ last'.caller \in DOMAIN project)
       => (/\ last'.result # "Ok"
           /\ project' = project
           /\ lamports' = lamports
           /\ vault' = vault)]_vars

\* C15 witness: a create_project has just been refused on an address
\* whose project holds donations and has reached its target.
C15_Witness ==
    /\ last.op = "create_project" /\ last.result = "AccountInUse"
    /\ last.caller \in DOMAIN project
    /\ project[last.caller].donators # <<>>
    /\ project[last.caller].status = "TargetReached"
    /\ project[last.caller].name # last.name

\* C16. get_donator_count is a pure read: on an existing project it returns
\* Ok with the number of records of the donor list, which is the number of
\* identities with a committed donate, and changes nothing.
C16_CountIsPureRead ==
    [][\A k \in DOMAIN project :
          (last'.op = "get_donator_count" /\ last'.key = k)
          => (/\ last'.result = "Ok"
              /\ last'.amount = Len(project[k].donators)
              /\ last'.amount = Cardinality(donated[k])
              /\ project' = project
              /\ lamports' = lamports
              /\ vault' = vault)]_vars

\* C16 witness: get_donator_count has just returned 2 on a project to
\* which one of the two donors gave more than once.
C16_Witness ==
    /\ last.op = "get_donator_count" /\ last.result = "Ok"
    /\ last.amount = 2
    /\ \E u \in Users : paid[last.key][u] >= 2

\* C17. A committed donate changes the donor list only at the caller's
\* record: a first-time donor is appended at the end, a returning donor's
\* record is updated in place, and every other record keeps its identity,
\* amount and position.
C17_DonorListFrame ==
    [][\A k \in DOMAIN project :
          (last'.op = "donate" /\ last'.key = k /\ last'.result = "Ok")
          => LET ds == project[k].donators
                 c  == last'.caller
                 hits == {i \in 1 .. Len(ds) : ds[i].user = c}
             IN  IF hits = {}
                 THEN project'[k].donators
                        = Append(ds, [user |-> c, amount |-> last'.amount])
                 ELSE /\ Len(project'[k].donators) = Len(ds)
                      /\ \A i \in 1 .. Len(ds) :
                            /\ project'[k].donators[i].user = ds[i].user
                            /\ project'[k].donators[i].amount
                                 = IF i \in hits
                                   THEN ds[i].amount + last'.amount
                                   ELSE ds[i].amount]_vars

\* C17 witness: the donor of the first of two records has just donated
\* again, after the second donor was appended behind it.
C17_Witness ==
    /\ DonateCommitted
    /\ last.amount > 0
    /\ Len(project[last.key].donators) = 2
    /\ project[last.key].donators[1].user = last.caller
    /\ project[last.key].donators[1].amount > last.amount
    /\ project[last.key].donators[2].amount > 0

C19_OnlyOpenStatuses ==
    /\ \A k \in DOMAIN project :
          project[k].status \in {"Active", "TargetReached"}
    /\ (last.op = "close_project" => last.result # "InvalidProjectStatus")

\* C19 witness: close_project has just returned Ok on a TargetReached
\* project with two donors while the other project is Active.
C19_Witness ==
    /\ last.op = "close_project" /\ last.result = "Ok"
    /\ DOMAIN project = Users
    /\ project[last.key].status = "TargetReached"
    /\ Len(project[last.key].donators) = 2
    /\ \E k \in Users : project[k].status = "Active"

\* C20. Order independence of donations: two projects with the same target
\* that received, in whatever order, committed donates of the same donors
\* with the same totals have the same balance, the same status and the
\* same amount for each donor; only the order of the records can differ.
C20_OrderIndependence ==
    \A k1, k2 \in DOMAIN project :
        (/\ project[k1].financial_target = project[k2].financial_target
         /\ paid[k1] = paid[k2]
         /\ donated[k1] = donated[k2])
        => /\ project[k1].balance = project[k2].balance
           /\ project[k1].status = project[k2].status
           /\ \A u \in Users :
                 /\ HasRecord(project[k1].donators, u)
                      <=> HasRecord(project[k2].donators, u)
                 /\ AmountOf(project[k1].donators, u)
                      = AmountOf(project[k2].donators, u)

\* C20 witness: two projects with the same positive target received the
\* same donations of the same two donors in opposite orders.
C20_Witness ==
    /\ DOMAIN project = Users
    /\ project["alice"].financial_target = project["bob"].financial_target
    /\ project["alice"].financial_target > 0
    /\ paid["alice"] = paid["bob"]
    /\ donated["alice"] = Users /\ donated["bob"] = Users
    /\ \A u \in Users : paid["alice"][u] > 0
    /\ project["alice"].donators[1].user # project["bob"].donators[1].user

====
